---------------------------- MODULE Spec2Model ----------------------------
(***************************************************************************)
(* Model of the ETF justification engine's decision core:                  *)
(*   - core/risk_manager.py     regime classifier, position validator,     *)
(*                              safe position sizing                       *)
(*   - core/portfolio_engine.py recommendation synthesizer                 *)
(*   - core/radar_scan.py       focus-list generation, RSI                 *)
(*   - core/scalpel_dive.py     news and sentiment enrichment              *)
(*   - main.py                  the daily run, step by step                *)
(*   - api/server.py            start / progress endpoints and the         *)
(*                              background analysis thread                 *)
(*                                                                         *)
(* Units.  Python floats are modelled by scaled integers:                  *)
(*   allocations / weights   basis points        (0.30  -> 3000)           *)
(*   money                   whole dollars       (safe size: cents)        *)
(*   VIX                     index points        (15.0  -> 15)             *)
(*   sentiment / relevance   hundredths          (0.5   -> 50)             *)
(*   trigger values          ten-thousandths     (2.0   -> 20000)          *)
(*   confidence              hundredths          (0.70  -> 70)             *)
(***************************************************************************)
EXTENDS Integers, Sequences, FiniteSets, TLC

VARIABLES
    vix_level,      \* current VIX reading handed to determine_risk_mode
    vix_5d_avg,     \* its 5-day trailing average
    risk_mode,      \* RiskMode in force ("unset" before the first classification)
    portfolio,      \* the PortfolioState snapshot (read-only to the core)
    focus_list,     \* the (enriched) focus list handed to the synthesizer
    rec_result,     \* outcome of generate_recommendations
    val_result,     \* outcome of PositionValidator.validate_all
    size_result,    \* outcome of calculate_safe_position_size
    market_data,    \* per-ticker scan input of generate_focus_list
    radar_result,   \* outcome of generate_focus_list
    bars,           \* one ticker's fetched price history, summarised
    scan_result,    \* that ticker's PriceData and the outcome of its scan
    prices,         \* a series of closes handed to calculate_rsi
    rsi_result,     \* outcome of calculate_rsi
    providers,      \* what the external providers answer during one daily run
    run,            \* run_daily_analysis: position and locals of the run
    analysis_running, \* api/server.py global flag
    progress_file,  \* content of analysis_progress.json
    threads,        \* position of every background thread started so far
    responses,      \* responses given to POST /api/analysis/start, in order
    status_read     \* last answer of GET /api/analysis/progress

vars == << vix_level, vix_5d_avg, risk_mode, portfolio, focus_list,
           rec_result, val_result, size_result, market_data, radar_result,
           bars, scan_result, prices, rsi_result, providers, run,
           analysis_running, progress_file, threads, responses, status_read >>

riskVars   == << vix_level, vix_5d_avg >>
engineVars == << portfolio, focus_list, rec_result >>
checkVars  == << val_result, size_result >>
radarVars  == << market_data, radar_result >>
scanVars   == << bars, scan_result >>
rsiVars    == << prices, rsi_result >>
runVars    == << providers, run >>
serverVars == << analysis_running, progress_file, threads, responses, status_read >>

-----------------------------------------------------------------------------
(* Bounds of the model *)

\* VIX readings range over 0..MaxVix index points
MaxVix == 40

-----------------------------------------------------------------------------
(* config/strategy_params.py *)

VIX_extreme_complacency == 15
VIX_normal_upper        == 25
VIX_risk_off            == 35

single_position_max == 3000
sector_max          == 5000
core_min            == 2500
core_max            == 4000
equity_min          == 8500
equity_max          == 10000
cash_overnight_max  == 500
sgov_exempt         == TRUE

focus_list_max_size == 7

\* RISK_MODE_ALLOCATIONS[mode]['equity'], in basis points
RISK_MODE_ALLOCATIONS ==
    [ extreme_complacency |-> [equity |-> 8500, fixed_income |-> 1000, cash_equivalent |-> 500],
      normal              |-> [equity |-> 9500, fixed_income |-> 500,  cash_equivalent |-> 0],
      caution             |-> [equity |-> 8000, fixed_income |-> 1500, cash_equivalent |-> 500],
      risk_off            |-> [equity |-> 6000, fixed_income |-> 2000, cash_equivalent |-> 2000] ]

-----------------------------------------------------------------------------
(* data/models.py : enums *)

RiskMode   == {"extreme_complacency", "normal", "caution", "risk_off"}
ActionType == {"BUY", "SELL", "HOLD", "INITIATE", "TRIM", "ADD"}
PriorityLevel == {"high", "medium", "low"}

-----------------------------------------------------------------------------
(* core/risk_manager.py : risk mode detection *)

Max(a, b) == IF a >= b THEN a ELSE b
Min(a, b) == IF a <= b THEN a ELSE b

\* variant: classifies on the current reading alone, ignoring the average
determine_risk_mode_current_only(level, avg) ==
    IF level < VIX_extreme_complacency THEN "extreme_complacency"
    ELSE IF level < VIX_normal_upper THEN "normal"
    ELSE IF level < VIX_risk_off THEN "caution"
    ELSE "risk_off"

determine_risk_mode(level, avg) ==
    LET vix_to_use == Max(level, avg)
    IN  IF vix_to_use < VIX_extreme_complacency THEN "extreme_complacency"
        ELSE IF vix_to_use < VIX_normal_upper THEN "normal"
        ELSE IF vix_to_use < VIX_risk_off THEN "caution"
        ELSE "risk_off"

get_target_allocation(mode) == RISK_MODE_ALLOCATIONS[mode]

VixReadings == 0 .. MaxVix

\* main.py step 4: a fresh pair of readings is fetched and classified
DetermineRiskMode ==
    /\ \E level \in VixReadings, avg \in VixReadings :
          /\ vix_level'  = level
          /\ vix_5d_avg' = avg
          /\ risk_mode'  = determine_risk_mode(level, avg)
    /\ UNCHANGED << engineVars, checkVars, radarVars, scanVars,
                    rsiVars, runVars, serverVars >>

\* no history fetched yet
NoBars == [n_bars |-> 0]

NoPortfolio == [ positions |-> << >>, order |-> << >>, total_value |-> 0,
                 cash_balance |-> 0, sector_breakdown |-> << >>, core |-> 0 ]

\* calculate_rsi has not been called
IdleRsi ==
    /\ prices = << >>
    /\ rsi_result = [status |-> "pending"]

\* run_daily_analysis has not been called
IdleRun ==
    /\ providers = [status |-> "unset"]
    /\ run = [pc |-> "idle"]

\* api/server.py after startup_event: flag False, progress file reset by
\* write_progress(0, "Idle"), no thread started, no request answered
IdleServer ==
    /\ analysis_running = FALSE
    /\ progress_file = [running |-> FALSE, progress |-> 0, message |-> "Idle"]
    /\ threads = << >>
    /\ responses = << >>
    /\ status_read = [status |-> "none"]

InitRisk ==
    /\ vix_level = 20
    /\ vix_5d_avg = 20
    /\ risk_mode = "unset"
    /\ portfolio = NoPortfolio
    /\ focus_list = << >>
    /\ rec_result = [status |-> "pending", recommendations |-> << >>]
    /\ val_result = [status |-> "pending", violations |-> << >>]
    /\ size_result = [status |-> "pending"]
    /\ market_data = << >>
    /\ radar_result = [status |-> "pending", focus_list |-> << >>]
    /\ bars = NoBars
    /\ scan_result = [status |-> "pending"]
    /\ IdleRsi
    /\ IdleRun
    /\ IdleServer

NextRisk == DetermineRiskMode

SpecRisk == InitRisk /\ [][NextRisk]_vars

-----------------------------------------------------------------------------
(* config/etf_universe.py : the reference table (a sample of the 30 rows) *)

ETF_UNIVERSE ==
    [ IVV  |-> [category |-> "Core",               sector |-> "Broad Market",
                asset_class |-> "Equity"],
      AGG  |-> [category |-> "Core",               sector |-> "Fixed Income",
                asset_class |-> "Fixed Income"],
      IEMG |-> [category |-> "Major Satellite",    sector |-> "Broad Market",
                asset_class |-> "Equity"],
      IYW  |-> [category |-> "Major Satellite",    sector |-> "Technology",
                asset_class |-> "Equity"],
      ITA  |-> [category |-> "Tactical Satellite", sector |-> "Aerospace",
                asset_class |-> "Equity"] ]

KnownTickers == DOMAIN ETF_UNIVERSE

\* a ticker the reference table does not hold
UnknownTicker == "ZZZ"

Tickers == KnownTickers \cup {UnknownTicker}

\* iteration order of the positions dictionary (insertion order)
TickerOrder == << "IVV", "AGG", "IEMG", "IYW", "ITA", "ZZZ" >>

\* get_etf_info: the row, or the empty dict for a miss
get_etf_info(ticker) ==
    IF ticker \in KnownTickers THEN ETF_UNIVERSE[ticker] ELSE << >>

HasKey(d, k) == k \in DOMAIN d

-----------------------------------------------------------------------------
(* scripts/initialize_portfolio.py : how a snapshot is derived from holdings *)

\* Python round(n / d, 0) on non-negative operands: nearest, ties to even
RoundDiv(n, d) ==
    LET q == n \div d
        r == n % d
    IN  IF 2 * r < d THEN q
        ELSE IF 2 * r > d THEN q + 1
        ELSE IF q % 2 = 0 THEN q ELSE q + 1

RECURSIVE Sum(_)
Sum(s) == IF s = << >> THEN 0 ELSE Head(s) + Sum(Tail(s))

RECURSIVE Dedup(_)
Dedup(s) ==
    IF s = << >> THEN << >>
    ELSE LET rest == Dedup(SelectSeq(Tail(s), LAMBDA x : x # Head(s)))
         IN  << Head(s) >> \o rest

\* one lot of each instrument: shares and last price (whole dollars)
Lot == [ IVV  |-> [shares |-> 25,  price |-> 600],
         AGG  |-> [shares |-> 100, price |-> 100],
         IEMG |-> [shares |-> 200, price |-> 50],
         IYW  |-> [shares |-> 50,  price |-> 200],
         ITA  |-> [shares |-> 50,  price |-> 200],
         ZZZ  |-> [shares |-> 33,  price |-> 100] ]

SectorOf(ticker) ==
    IF ticker \in KnownTickers THEN ETF_UNIVERSE[ticker].sector ELSE "Unknown"

\* create_initial_portfolio_state, for `lots[t]` lots of each ticker and a cash balance
MakePortfolio(lots, cash) ==
    LET held    == SelectSeq(TickerOrder, LAMBDA t : lots[t] > 0)
        shares(t) == lots[t] * Lot[t].shares
        mv(t)   == shares(t) * Lot[t].price
        mvOf(s) == Sum([ i \in DOMAIN s |-> mv(s[i]) ])
        total   == mvOf(held) + cash
        heldSet == { held[i] : i \in DOMAIN held }
        sectors == { SectorOf(t) : t \in heldSet }
        mvIn(sec) == mvOf(SelectSeq(held, LAMBDA t : SectorOf(t) = sec))
        coreMv  == mvOf(SelectSeq(held, LAMBDA t :
                       t \in KnownTickers /\ ETF_UNIVERSE[t].category = "Core"))
    IN  [ positions |->
              [ t \in heldSet |->
                  [ shares        |-> shares(t),
                    current_price |-> Lot[t].price,
                    market_value  |-> mv(t),
                    weight        |-> RoundDiv(mv(t) * 10000, total) ] ],
          order            |-> held,
          total_value      |-> total,
          cash_balance     |-> cash,
          sector_breakdown |-> [ sec \in sectors |-> RoundDiv(mvIn(sec) * 10000, total) ],
          core             |-> IF total = 0 THEN 0 ELSE RoundDiv(coreMv * 10000, total) ]

-----------------------------------------------------------------------------
(* core/risk_manager.py : PositionValidator *)

\* for ticker, position in positions.items(): weight > single_position_max
validate_single_position_limits(p) ==
    LET over == SelectSeq(p.order, LAMBDA t : p.positions[t].weight > single_position_max)
    IN  [ i \in DOMAIN over |-> [check |-> "single_position", subject |-> over[i]] ]

\* for sector, allocation in sector_breakdown.items(): allocation > sector_max
validate_sector_concentration(p) ==
    LET secs == Dedup([ i \in DOMAIN p.order |-> SectorOf(p.order[i]) ])
        over == SelectSeq(secs, LAMBDA s : p.sector_breakdown[s] > sector_max)
    IN  [ i \in DOMAIN over |-> [check |-> "sector", subject |-> over[i]] ]

validate_core_allocation(p) ==
    IF p.core < core_min THEN << [check |-> "core_min", subject |-> "Core"] >>
    ELSE IF p.core > core_max THEN << [check |-> "core_max", subject |-> "Core"] >>
    ELSE << >>

\* ETF_UNIVERSE[ticker] is subscripted for every held ticker: KeyError on a miss
equity_exposure_raises(p) ==
    \E i \in DOMAIN p.order : p.order[i] \notin KnownTickers

validate_equity_exposure(p) ==
    LET eq == SelectSeq(p.order, LAMBDA t : ETF_UNIVERSE[t].asset_class = "Equity")
        w(t) == p.positions[t].weight
        equity_total == Sum([ i \in DOMAIN eq |-> w(eq[i]) ])
    IN  IF equity_total < equity_min THEN << [check |-> "equity_min", subject |-> "Equity"] >>
        ELSE IF equity_total > equity_max THEN << [check |-> "equity_max", subject |-> "Equity"] >>
        ELSE << >>

\* cash_balance / total_value: ZeroDivisionError when total_value is 0
cash_limit_raises(p) == p.total_value = 0

validate_cash_limit(p) ==
    LET sgov == IF ~sgov_exempt /\ "SGOV" \in DOMAIN p.positions
                THEN p.positions["SGOV"].weight ELSE 0
    IN  \* cash / total + sgov > cash_overnight_max, in basis points
        IF p.cash_balance * 10000 + sgov * p.total_value > cash_overnight_max * p.total_value
        THEN << [check |-> "cash", subject |-> "Cash"] >>
        ELSE << >>

\* variant: the checks stop at the first one that finds a violation
validate_all_first_only(p) ==
    LET v1 == validate_single_position_limits(p)
        v2 == validate_sector_concentration(p)
        v3 == validate_core_allocation(p)
    IN  IF v1 # << >>
        THEN [status |-> "returned", is_valid |-> FALSE, violations |-> v1]
        ELSE IF v2 # << >>
        THEN [status |-> "returned", is_valid |-> FALSE, violations |-> v2]
        ELSE IF v3 # << >>
        THEN [status |-> "returned", is_valid |-> FALSE, violations |-> v3]
        ELSE IF equity_exposure_raises(p)
        THEN [status |-> "raised", error |-> "KeyError", violations |-> << >>]
        ELSE IF validate_equity_exposure(p) # << >>
        THEN [status |-> "returned", is_valid |-> FALSE,
              violations |-> validate_equity_exposure(p)]
        ELSE IF cash_limit_raises(p)
        THEN [status |-> "raised", error |-> "ZeroDivisionError", violations |-> << >>]
        ELSE LET v == validate_cash_limit(p)
             IN  [status |-> "returned", is_valid |-> (Len(v) = 0), violations |-> v]

validate_all(p) ==
    LET v3 == validate_single_position_limits(p)
                \o validate_sector_concentration(p)
                \o validate_core_allocation(p)
    IN  IF equity_exposure_raises(p)
        THEN [status |-> "raised", error |-> "KeyError", violations |-> << >>]
        ELSE IF cash_limit_raises(p)
        THEN [status |-> "raised", error |-> "ZeroDivisionError", violations |-> << >>]
        ELSE LET v == v3 \o validate_equity_exposure(p) \o validate_cash_limit(p)
             IN  [status |-> "returned", is_valid |-> (Len(v) = 0), violations |-> v]

-----------------------------------------------------------------------------
(* core/risk_manager.py : position size calculator *)

\* the result is in cents: round(safe_size, 2)
calculate_safe_position_size(ticker, current_portfolio_value, sector_allocations) ==
    IF ticker \notin KnownTickers
    THEN [status |-> "raised", error |-> "KeyError", ticker |-> ticker]
    ELSE
      LET sector == ETF_UNIVERSE[ticker].sector
          max_position_value == current_portfolio_value * single_position_max  \* x 1e-4 $
          current_sector_allocation ==
              IF HasKey(sector_allocations, sector) THEN sector_allocations[sector] ELSE 0
          remaining_sector_allocation == sector_max - current_sector_allocation
          max_sector_value == current_portfolio_value * remaining_sector_allocation
          safe_size == Min(max_position_value, max_sector_value)
      IN  IF remaining_sector_allocation <= 0
          THEN [status |-> "returned", ticker |-> ticker, cents |-> 0]
          ELSE [status |-> "returned", ticker |-> ticker, cents |-> RoundDiv(safe_size, 100)]

-----------------------------------------------------------------------------
(* Specification of the validator and the sizing function over snapshots *)

\* every ticker is held in 0..MaxLots lots
MaxLots == 2

CashChoices == {0, 6000}

Snapshots ==
    { MakePortfolio(lots, cash) : lots \in [Tickers -> 0 .. MaxLots], cash \in CashChoices }

ValidateAll ==
    /\ val_result.status = "pending"
    /\ val_result' = validate_all(portfolio)
    /\ UNCHANGED << riskVars, risk_mode, engineVars, size_result, radarVars, scanVars,
                    rsiVars, runVars, serverVars >>

CalculateSafePositionSize ==
    /\ size_result.status = "pending"
    /\ \E ticker \in Tickers :
          size_result' = calculate_safe_position_size(
                             ticker, portfolio.total_value, portfolio.sector_breakdown)
    /\ UNCHANGED << riskVars, risk_mode, engineVars, val_result, radarVars, scanVars,
                    rsiVars, runVars, serverVars >>

InitCheck ==
    /\ vix_level = 20
    /\ vix_5d_avg = 20
    /\ risk_mode = "normal"
    /\ portfolio \in Snapshots
    /\ focus_list = << >>
    /\ rec_result = [status |-> "pending", recommendations |-> << >>]
    /\ val_result = [status |-> "pending", violations |-> << >>]
    /\ size_result = [status |-> "pending"]
    /\ market_data = << >>
    /\ radar_result = [status |-> "pending", focus_list |-> << >>]
    /\ bars = NoBars
    /\ scan_result = [status |-> "pending"]
    /\ IdleRsi
    /\ IdleRun
    /\ IdleServer

NextCheck == ValidateAll \/ CalculateSafePositionSize

SpecCheck == InitCheck /\ [][NextCheck]_vars

-----------------------------------------------------------------------------
(* core/portfolio_engine.py : RecommendationEngine *)

NoNews == [present |-> FALSE, sentiment_score |-> 0, relevance_score |-> 0]

\* variant: the two sentiment thresholds taken inclusively
sentiment_step_inclusive(focus_item, is_held) ==
    LET action    == focus_item.recommendation
        sentiment == focus_item.news_analysis.sentiment_score
    IN  IF focus_item.news_analysis.present
        THEN IF sentiment >= 50 /\ action = "HOLD"
             THEN (IF is_held THEN "ADD" ELSE "INITIATE")
             ELSE IF sentiment <= -30 /\ is_held THEN "TRIM"
             ELSE action
        ELSE action

\* lines 164-177: the preliminary action refined by news sentiment, when present
sentiment_step(focus_item, is_held) ==
    LET action    == focus_item.recommendation
        sentiment == focus_item.news_analysis.sentiment_score
    IN  IF focus_item.news_analysis.present
        THEN IF sentiment > 50 /\ action = "HOLD"
             THEN (IF is_held THEN "ADD" ELSE "INITIATE")
             ELSE IF sentiment < -30 /\ is_held THEN "TRIM"
             ELSE action
        ELSE action

\* lines 179-187: risk mode overrides
risk_mode_override(action, mode) ==
    IF mode = "risk_off"
    THEN (IF action \in {"INITIATE", "ADD"} THEN "HOLD" ELSE action)
    ELSE IF mode = "caution"
    THEN (IF action = "ADD" THEN "HOLD" ELSE action)
    ELSE action

\* variant: the regime override runs on the preliminary action, before sentiment
determine_action_override_first(focus_item, is_held, mode) ==
    sentiment_step(
        [focus_item EXCEPT !.recommendation = risk_mode_override(@, mode)], is_held)

determine_action(focus_item, is_held, mode) ==
    risk_mode_override(sentiment_step(focus_item, is_held), mode)

\* etf_info['category'] on the empty dict of an unknown ticker: KeyError
target_allocation_raises(focus_item, action) ==
    action = "INITIATE" /\ ~HasKey(get_etf_info(focus_item.ticker), "category")

\* variant: every entry is sized at 5%, whatever the category
calculate_target_allocation_flat_entry(p, focus_item, action, is_held) ==
    LET ticker   == focus_item.ticker
        current_allocation == IF is_held THEN p.positions[ticker].weight ELSE 0
    IN  CASE action = "HOLD"     -> current_allocation
          [] action = "INITIATE" -> 500
          [] action = "ADD"      -> Min(current_allocation + 300, single_position_max)
          [] action = "TRIM"     -> Max(current_allocation - 300, 0)
          [] action = "SELL"     -> 0
          [] OTHER               -> current_allocation

calculate_target_allocation(p, focus_item, action, is_held) ==
    LET ticker   == focus_item.ticker
        etf_info == get_etf_info(ticker)
        current_allocation == IF is_held THEN p.positions[ticker].weight ELSE 0
    IN  CASE action = "HOLD"     -> current_allocation
          [] action = "INITIATE" ->
                 IF etf_info.category = "Major Satellite" THEN 1000 ELSE 500
          [] action = "ADD"      -> Min(current_allocation + 300, single_position_max)
          [] action = "TRIM"     -> Max(current_allocation - 300, 0)
          [] action = "SELL"     -> 0
          [] OTHER               -> current_allocation

get_current_price(p, ticker) ==
    IF ticker \in DOMAIN p.positions
    THEN p.positions[ticker].current_price
    ELSE 100

calculate_allocation_details(p, ticker, target_allocation, is_held) ==
    LET current_allocation == IF is_held THEN p.positions[ticker].weight ELSE 0
        shares_current     == IF is_held THEN p.positions[ticker].shares ELSE 0
        current_price      == get_current_price(p, ticker)
        \* int(total_value * target_allocation / current_price)
        shares_target      == IF current_price > 0
                              THEN (p.total_value * target_allocation)
                                       \div (10000 * current_price)
                              ELSE 0
    IN  [ current_allocation |-> current_allocation,
          target_allocation  |-> target_allocation,
          allocation_change  |-> target_allocation - current_allocation,
          shares_current     |-> shares_current,
          shares_target      |-> shares_target,
          shares_to_trade    |-> shares_target - shares_current ]

\* variant: the trigger bonus is given from 2.0 on
raw_confidence_inclusive(focus_item) ==
    LET news == focus_item.news_analysis
    IN  70
        + (IF focus_item.trigger_value >= 20000 THEN 10 ELSE 0)
        + (IF news.present /\ news.relevance_score > 70
           THEN (IF news.sentiment_score > 50 THEN 10
                 ELSE IF news.sentiment_score < -30 THEN 5 ELSE 0)
           ELSE 0)

\* the confidence before the cap, in hundredths
raw_confidence(focus_item) ==
    LET news == focus_item.news_analysis
    IN  70
        + (IF focus_item.trigger_value > 20000 THEN 10 ELSE 0)
        + (IF news.present /\ news.relevance_score > 70
           THEN (IF news.sentiment_score > 50 THEN 10
                 ELSE IF news.sentiment_score < -30 THEN 5 ELSE 0)
           ELSE 0)

\* variant: high priority from a confidence of 0.8 on
calculate_priority_and_confidence_inclusive(focus_item, action) ==
    LET confidence == raw_confidence(focus_item)
        priority   == IF action \in {"SELL", "INITIATE"} /\ confidence >= 80 THEN "high"
                      ELSE IF action \in {"ADD", "TRIM"} THEN "medium"
                      ELSE "low"
    IN  [priority |-> priority, confidence |-> Min(confidence, 95)]

calculate_priority_and_confidence(focus_item, action) ==
    LET confidence == raw_confidence(focus_item)
        priority   == IF action \in {"SELL", "INITIATE"} /\ confidence > 80 THEN "high"
                      ELSE IF action \in {"ADD", "TRIM"} THEN "medium"
                      ELSE "low"
    IN  [priority |-> priority, confidence |-> Min(confidence, 95)]

\* _generate_thesis and _collect_qualitative_evidence subscript etf_info['name'],
\* ['sector'], ['geography']: KeyError for a ticker the table does not hold
justification_raises(focus_item) ==
    ~HasKey(get_etf_info(focus_item.ticker), "sector")

NoRec == [ ticker |-> "", action |-> "HOLD", priority |-> "low", confidence |-> 0,
           allocation |-> [ current_allocation |-> 0, target_allocation |-> 0,
                            allocation_change |-> 0, shares_current |-> 0,
                            shares_target |-> 0, shares_to_trade |-> 0 ] ]

\* variant: the zero-delta early return is missing
generate_recommendation_no_skip(p, mode, focus_item) ==
    LET ticker  == focus_item.ticker
        is_held == ticker \in DOMAIN p.positions
        action  == determine_action(focus_item, is_held, mode)
    IN  IF target_allocation_raises(focus_item, action) \/ justification_raises(focus_item)
        THEN [kind |-> "raise", rec |-> NoRec]
        ELSE LET target == calculate_target_allocation(p, focus_item, action, is_held)
                 pc     == calculate_priority_and_confidence(focus_item, action)
             IN  [ kind |-> "rec",
                   rec  |-> [ ticker |-> ticker, action |-> action,
                              priority |-> pc.priority, confidence |-> pc.confidence,
                              allocation |->
                                  calculate_allocation_details(p, ticker, target, is_held) ] ]

\* _generate_recommendation_for_focus_item: a Recommendation, None, or an exception
generate_recommendation_for_focus_item(p, mode, focus_item) ==
    LET ticker  == focus_item.ticker
        is_held == ticker \in DOMAIN p.positions
        action  == determine_action(focus_item, is_held, mode)
    IN  IF target_allocation_raises(focus_item, action)
        THEN [kind |-> "raise", rec |-> NoRec]
        ELSE
          LET target  == calculate_target_allocation(p, focus_item, action, is_held)
              details == calculate_allocation_details(p, ticker, target, is_held)
              pc      == calculate_priority_and_confidence(focus_item, action)
          IN  IF details.shares_to_trade = 0
              THEN [kind |-> "none", rec |-> NoRec]
              ELSE IF justification_raises(focus_item)
              THEN [kind |-> "raise", rec |-> NoRec]
              ELSE [ kind |-> "rec",
                     rec  |-> [ ticker |-> ticker, action |-> action,
                                priority |-> pc.priority, confidence |-> pc.confidence,
                                allocation |-> details ] ]

\* variant: the recommendations are returned in focus-list order
sort_by_priority_unsorted(recs) ==
    recs

\* list.sort on the key 0 / 1 / 2 (high / medium / low): a stable sort
sort_by_priority(recs) ==
    SelectSeq(recs, LAMBDA r : r.priority = "high")
      \o SelectSeq(recs, LAMBDA r : r.priority = "medium")
      \o SelectSeq(recs, LAMBDA r : r.priority \notin {"high", "medium"})

\* _generate_recommendations_for_holdings: the loop body is `pass`
generate_recommendations_for_holdings(p) == << >>

generate_recommendations(p, mode, fl) ==
    LET out == [ i \in DOMAIN fl |-> generate_recommendation_for_focus_item(p, mode, fl[i]) ]
    IN  IF \E i \in DOMAIN out : out[i].kind = "raise"
        THEN \* no handler around the loop body: the exception leaves the method
             [status |-> "raised", recommendations |-> << >>]
        ELSE LET kept == SelectSeq(out, LAMBDA o : o.kind = "rec")
                 recs == [ i \in DOMAIN kept |-> kept[i].rec ]
                           \o generate_recommendations_for_holdings(p)
             IN  [status |-> "returned", recommendations |-> sort_by_priority(recs)]

-----------------------------------------------------------------------------
(* Specification of the synthesizer *)

\* focus lists of several entries have up to MaxFocusLen entries
MaxFocusLen == 3

SentimentScores == {-100, -31, -30, 50, 51}
RelevanceScores == {70, 71}
TriggerValues   == {-300, 20000, 25000}

NewsChoices ==
    {NoNews} \cup
    { [present |-> TRUE, sentiment_score |-> s, relevance_score |-> r] :
          s \in SentimentScores, r \in RelevanceScores }

FocusItem(t, a, n, v) ==
    [ ticker |-> t, recommendation |-> a, news_analysis |-> n, trigger_value |-> v,
      current_price |-> Lot[t].price ]

\* one entry, in every combination of ticker, preliminary action, news and trigger
RichItems ==
    { FocusItem(t, a, n, v) :
          t \in Tickers, a \in ActionType, n \in NewsChoices, v \in TriggerValues }

\* entries as the detector produces them (preliminary HOLD), enriched or not
PoolItems ==
    { FocusItem(t, "HOLD", n, 25000) :
          t \in {"IVV", "IEMG", "ITA", "ZZZ"},
          n \in { NoNews,
                  [present |-> TRUE, sentiment_score |-> 51,  relevance_score |-> 71],
                  [present |-> TRUE, sentiment_score |-> -31, relevance_score |-> 71] } }

\* a focus list holds a ticker at most once (one scan result per ticker)
DistinctTickers(fl) ==
    \A i, j \in DOMAIN fl : i # j => fl[i].ticker # fl[j].ticker

FocusLists ==
    {<< >>} \cup { << i >> : i \in RichItems }
            \cup { fl \in UNION { [1 .. n -> PoolItems] : n \in 2 .. MaxFocusLen } :
                      DistinctTickers(fl) }

Holding(ivv, agg, iemg, iyw, ita, zzz) ==
    [ IVV |-> ivv, AGG |-> agg, IEMG |-> iemg, IYW |-> iyw, ITA |-> ita, ZZZ |-> zzz ]

\* snapshots: within every limit; empty; concentrated; holding an unknown ticker;
\* a single bond position; one lot of everything
EngineHoldings ==
    { Holding(2, 1, 2, 2, 2, 0), Holding(0, 0, 0, 0, 0, 0), Holding(2, 1, 0, 0, 0, 0),
      Holding(2, 0, 1, 0, 0, 1), Holding(0, 1, 0, 0, 0, 0), Holding(1, 1, 1, 1, 1, 0) }

EngineSnapshots ==
    { MakePortfolio(lots, cash) : lots \in EngineHoldings, cash \in CashChoices }

GenerateRecommendations ==
    /\ rec_result.status = "pending"
    /\ rec_result' = generate_recommendations(portfolio, risk_mode, focus_list)
    /\ UNCHANGED << riskVars, risk_mode, portfolio, focus_list, checkVars, radarVars,
                    scanVars, rsiVars, runVars, serverVars >>

InitEngine ==
    /\ vix_level \in {12, 20, 30, 40}
    /\ vix_5d_avg = vix_level
    /\ risk_mode = determine_risk_mode(vix_level, vix_5d_avg)
    /\ portfolio \in EngineSnapshots
    /\ focus_list \in FocusLists
    /\ rec_result = [status |-> "pending", recommendations |-> << >>]
    /\ val_result = [status |-> "pending", violations |-> << >>]
    /\ size_result = [status |-> "pending"]
    /\ market_data = << >>
    /\ radar_result = [status |-> "pending", focus_list |-> << >>]
    /\ bars = NoBars
    /\ scan_result = [status |-> "pending"]
    /\ IdleRsi
    /\ IdleRun
    /\ IdleServer

NextEngine == GenerateRecommendations

SpecEngine == InitEngine /\ [][NextEngine]_vars

-----------------------------------------------------------------------------
(* The radar scan: backend/core/radar_scan.py.
   Ratios, returns, z-scores and RSI are in units of 1e-4 (1.30 -> 13000,
   1.5% -> 150, 2.0 -> 20000, RSI 70 -> 700000); moving averages in cents. *)

NumTickers == 8

price_move_threshold     == 150
volume_spike_threshold   == 13000
price_stddev_threshold   == 20000
momentum_crossover       == TRUE
rsi_overbought           == 700000
rsi_oversold             == 300000

\* an Optional field left unset
None == -1

\* Python truth value of an Optional[float]: None and 0.0 are both false
Truthy(v) == v # None /\ v # 0

Abs(x) == IF x < 0 THEN -x ELSE x

\* TechnicalIndicators() with every field at its default
NoIndicators ==
    [sma_20 |-> None, sma_50 |-> None, rsi_14 |-> None, macd_signal |-> "None"]

\* lines 170-172 and 198-201: nothing is computed below 200 bars; a computed
\* value that is falsy is stored as None
calculate_technical_indicators(df) ==
    IF df.n_bars = 0 \/ df.n_bars < 200
    THEN NoIndicators
    ELSE [sma_20      |-> IF Truthy(df.sma_20) THEN df.sma_20 ELSE None,
          sma_50      |-> IF Truthy(df.sma_50) THEN df.sma_50 ELSE None,
          rsi_14      |-> IF Truthy(df.rsi_14) THEN df.rsi_14 ELSE None,
          macd_signal |-> df.macd_signal]

NoTrigger == [fired |-> FALSE, type |-> "none", value |-> 0]

Trigger(type, value) == [fired |-> TRUE, type |-> type, value |-> value]

detect_volume_spike(price_data) ==
    IF price_data.volume_ratio >= volume_spike_threshold
    THEN Trigger("volume_spike", price_data.volume_ratio)
    ELSE NoTrigger

detect_price_move(price_data, df) ==
    LET abs_change == Abs(price_data.price_change_1d)
        z_score    == IF df.std_dev > 0
                      THEN (abs_change * 10000) \div df.std_dev
                      ELSE 0
    IN  IF abs_change >= price_move_threshold
        THEN Trigger("price_move", price_data.price_change_1d)
        ELSE IF df.n_bars >= 30 /\ z_score >= price_stddev_threshold
             THEN Trigger("price_move", z_score)
             ELSE NoTrigger

detect_momentum_crossover(technical_indicators) ==
    IF ~momentum_crossover
    THEN NoTrigger
    ELSE IF technical_indicators.macd_signal \in {"bullish_crossover", "bearish_crossover"}
    THEN Trigger("momentum_crossover", 10000)
    ELSE IF /\ Truthy(technical_indicators.sma_20)
            /\ Truthy(technical_indicators.sma_50)
            /\ technical_indicators.sma_20 > technical_indicators.sma_50
            /\ technical_indicators.sma_20 * 100 < 102 * technical_indicators.sma_50
    THEN Trigger("momentum_crossover",
                 (technical_indicators.sma_20 * 10000) \div technical_indicators.sma_50)
    ELSE NoTrigger

detect_rsi_extreme(technical_indicators) ==
    LET rsi == technical_indicators.rsi_14
    IN  IF ~Truthy(rsi)
        THEN NoTrigger
        ELSE IF rsi >= rsi_overbought
        THEN Trigger("rsi_extreme", rsi)
        ELSE IF rsi <= rsi_oversold
        THEN Trigger("rsi_extreme", rsi)
        ELSE NoTrigger

\* variant: the majority of the three votes decides the preliminary action
determine_preliminary_action_by_votes(price_data, technical_indicators, trigger) ==
    LET rsi == technical_indicators.rsi_14
        bullish_signals ==
            (IF price_data.price_change_1d > 0 THEN 1 ELSE 0)
          + (IF technical_indicators.macd_signal \in {"bullish", "bullish_crossover"}
             THEN 1 ELSE 0)
          + (IF Truthy(rsi) /\ rsi < 300000 THEN 1 ELSE 0)
        bearish_signals ==
            (IF price_data.price_change_1d > 0 THEN 0 ELSE 1)
          + (IF technical_indicators.macd_signal \in {"bearish", "bearish_crossover"}
             THEN 1 ELSE 0)
          + (IF Truthy(rsi) /\ ~(rsi < 300000) /\ rsi > 700000 THEN 1 ELSE 0)
    IN  IF bullish_signals > bearish_signals + 1
        THEN "BUY"
        ELSE IF bearish_signals > bullish_signals + 1
        THEN "SELL"
        ELSE "HOLD"

\* the three votes are counted and every branch returns HOLD
determine_preliminary_action(price_data, technical_indicators, trigger) ==
    LET rsi == technical_indicators.rsi_14
        bullish_signals ==
            (IF price_data.price_change_1d > 0 THEN 1 ELSE 0)
          + (IF technical_indicators.macd_signal \in {"bullish", "bullish_crossover"}
             THEN 1 ELSE 0)
          + (IF Truthy(rsi) /\ rsi < 300000 THEN 1 ELSE 0)
        bearish_signals ==
            (IF price_data.price_change_1d > 0 THEN 0 ELSE 1)
          + (IF technical_indicators.macd_signal \in {"bearish", "bearish_crossover"}
             THEN 1 ELSE 0)
          + (IF Truthy(rsi) /\ ~(rsi < 300000) /\ rsi > 700000 THEN 1 ELSE 0)
    IN  IF bullish_signals > bearish_signals + 1
        THEN "HOLD"
        ELSE IF bearish_signals > bullish_signals + 1
        THEN "HOLD"
        ELSE "HOLD"

IsFired(t) == t.fired

\* the triggers that fired, in evaluation order
fired_triggers(df, price_data) ==
    LET technical_indicators == calculate_technical_indicators(df)
    IN  SelectSeq(<< detect_volume_spike(price_data),
                     detect_price_move(price_data, df),
                     detect_momentum_crossover(technical_indicators),
                     detect_rsi_extreme(technical_indicators) >>, IsFired)

NoItem == [found |-> FALSE]

\* variant: the primary trigger is the fired trigger of greatest value
scan_etf_largest(ticker, df, price_data) ==
    LET technical_indicators == calculate_technical_indicators(df)
        triggers             == fired_triggers(df, price_data)
    IN  IF triggers # << >>
        THEN LET primary_trigger ==
                     triggers[CHOOSE i \in DOMAIN triggers :
                                 \A j \in DOMAIN triggers :
                                     triggers[i].value >= triggers[j].value]
             IN  [found |-> TRUE,
                  item  |-> [ticker               |-> ticker,
                             trigger_type         |-> primary_trigger.type,
                             trigger_value        |-> primary_trigger.value,
                             price_data           |-> price_data,
                             technical_indicators |-> technical_indicators,
                             news_analysis        |-> NoNews,
                             recommendation       |->
                                 determine_preliminary_action(
                                     price_data, technical_indicators, primary_trigger)]]
        ELSE NoItem

scan_etf(ticker, df, price_data) ==
    LET technical_indicators == calculate_technical_indicators(df)
        triggers             == fired_triggers(df, price_data)
    IN  IF triggers # << >>
        THEN LET primary_trigger == triggers[1]
             IN  [found |-> TRUE,
                  item  |-> [ticker               |-> ticker,
                             trigger_type         |-> primary_trigger.type,
                             trigger_value        |-> primary_trigger.value,
                             price_data           |-> price_data,
                             technical_indicators |-> technical_indicators,
                             news_analysis        |-> NoNews,
                             recommendation       |->
                                 determine_preliminary_action(
                                     price_data, technical_indicators, primary_trigger)]]
        ELSE NoItem

\* list.sort(key=trigger_value) without reverse=True
sort_by_trigger_value_ascending(items) ==
    LET before(i) == Cardinality({j \in DOMAIN items :
                         \/ items[j].trigger_value < items[i].trigger_value
                         \/ items[j].trigger_value = items[i].trigger_value /\ j < i})
    IN  [k \in DOMAIN items |-> items[CHOOSE i \in DOMAIN items : before(i) + 1 = k]]

\* line 490: list.sort(key=trigger_value, reverse=True), a stable sort: an item
\* is preceded by the items of greater value and the earlier items of equal value
sort_by_trigger_value(items) ==
    LET before(i) == Cardinality({j \in DOMAIN items :
                         \/ items[j].trigger_value > items[i].trigger_value
                         \/ items[j].trigger_value = items[i].trigger_value /\ j < i})
    IN  [k \in DOMAIN items |-> items[CHOOSE i \in DOMAIN items : before(i) + 1 = k]]

\* the list handed on whole
limit_to_max_size_never(items) ==
    items

\* lines 493-496
limit_to_max_size(items) ==
    IF Len(items) > focus_list_max_size
    THEN SubSeq(items, 1, focus_list_max_size)
    ELSE items

IsFound(o) == o.found

\* market_data and price_data_dict are one sequence here, in the order of the
\* keys of market_data; entry = [ticker, df, price_data]
generate_focus_list(md) ==
    LET scanned == [i \in DOMAIN md |->
                       IF md[i].df.is_none \/ md[i].df.n_bars = 0 \/ md[i].price_data.is_none
                       THEN NoItem
                       ELSE scan_etf(md[i].ticker, md[i].df, md[i].price_data)]
        found   == SelectSeq(scanned, IsFound)
        focus   == [i \in DOMAIN found |-> found[i].item]
    IN  limit_to_max_size(sort_by_trigger_value(focus))

-----------------------------------------------------------------------------
(* Specification of the radar scan over per-ticker inputs *)

Frame(n_bars, std_dev, sma_20, sma_50, rsi_14, macd_signal) ==
    [is_none |-> FALSE, n_bars |-> n_bars, std_dev |-> std_dev,
     sma_20 |-> sma_20, sma_50 |-> sma_50, rsi_14 |-> rsi_14,
     macd_signal |-> macd_signal]

Price(volume_ratio, price_change_1d) ==
    [is_none |-> FALSE, volume_ratio |-> volume_ratio,
     price_change_1d |-> price_change_1d]

\* what one ticker can look like on a scan day: three groups of three, the
\* ticker at position i drawing from group (i - 1) % 3
ScanSamples ==
    << \* no price data was fetched for the ticker
       [df |-> Frame(250, 100, 10000, 10500, 500000, "bullish"),
        price_data |-> [is_none |-> TRUE, volume_ratio |-> 0, price_change_1d |-> 0]],
       \* volume at 150% of its average
       [df |-> Frame(250, 100, 10000, 10500, 500000, "bullish"),
        price_data |-> Price(15000, 50)],
       \* a 3% fall
       [df |-> Frame(250, 100, 10000, 10500, 500000, "bearish"),
        price_data |-> Price(10000, -300)],
       \* a quiet day
       [df |-> Frame(250, 100, 10000, 10500, 500000, "bullish"),
        price_data |-> Price(10000, 50)],
       \* a 1.2% rise, 2.4 standard deviations
       [df |-> Frame(250, 50, 10000, 10500, 500000, "bullish"),
        price_data |-> Price(10000, 120)],
       \* a MACD crossover
       [df |-> Frame(250, 100, 10000, 10500, 500000, "bullish_crossover"),
        price_data |-> Price(10000, 50)],
       \* 40 bars: an RSI of 80 would be computed from them, but nothing is
       [df |-> Frame(40, 100, 10000, 10500, 800000, "bullish"),
        price_data |-> Price(10000, 50)],
       \* RSI at 75
       [df |-> Frame(250, 100, 10000, 10500, 750000, "bullish"),
        price_data |-> Price(10000, 50)],
       \* the 20-day average 1% above the 50-day average
       [df |-> Frame(250, 100, 10100, 10000, 500000, "bullish"),
        price_data |-> Price(10000, 50)] >>

SampleFor(i, c) == ScanSamples[((i - 1) % 3) * 3 + c]

RadarInputs ==
    { [i \in 1..NumTickers |->
          [ticker |-> i, df |-> SampleFor(i, c[i]).df,
           price_data |-> SampleFor(i, c[i]).price_data]] :
      c \in [1..NumTickers -> 1..3] }

GenerateFocusList ==
    /\ radar_result.status = "pending"
    /\ radar_result' = [status |-> "returned",
                        focus_list |-> generate_focus_list(market_data)]
    /\ UNCHANGED << riskVars, risk_mode, engineVars, checkVars, market_data, scanVars,
                    rsiVars, runVars, serverVars >>

InitRadar ==
    /\ vix_level = 20
    /\ vix_5d_avg = 20
    /\ risk_mode = "unset"
    /\ portfolio = NoPortfolio
    /\ focus_list = << >>
    /\ rec_result = [status |-> "pending", recommendations |-> << >>]
    /\ val_result = [status |-> "pending", violations |-> << >>]
    /\ size_result = [status |-> "pending"]
    /\ market_data \in RadarInputs
    /\ radar_result = [status |-> "pending", focus_list |-> << >>]
    /\ bars = NoBars
    /\ scan_result = [status |-> "pending"]
    /\ IdleRsi
    /\ IdleRun
    /\ IdleServer

NextRadar == GenerateFocusList

SpecRadar == InitRadar /\ [][NextRadar]_vars

-----------------------------------------------------------------------------
(* One ticker from fetched history to focus-list entry: main.py builds its
   PriceData with MarketDataFetcher.calculate_price_data, generate_focus_list
   scans it.  Prices in cents, volumes in shares. *)

NoPriceData == [is_none |-> TRUE, volume_ratio |-> 0, price_change_1d |-> 0]

\* Python round(n / d, 0) for d > 0 and n of either sign
RoundSigned(n, d) == IF n < 0 THEN -RoundDiv(-n, d) ELSE RoundDiv(n, d)

\* data_fetcher.py lines 162-201: None below 30 bars; the 1-day return rounded to
\* 4 places; the 30-day average volume truncated to an integer, the ratio
\* rounded to 2 places (1.0 when the average is 0)
calculate_price_data(df) ==
    IF df.n_bars = 0 \/ df.n_bars < 30
    THEN NoPriceData
    ELSE LET price_change_1d ==
                 IF df.prev_close > 0
                 THEN RoundSigned((df.close - df.prev_close) * 10000, df.prev_close)
                 ELSE 0
             volume_30d_avg == df.volume_tail_sum \div 30
             volume_ratio   == IF volume_30d_avg > 0
                               THEN RoundDiv(df.volume_today * 100, volume_30d_avg)
                               ELSE 100
         IN  Price(volume_ratio * 100, price_change_1d)

\* closing price today and the day before
CloseChoices == { <<10000, 10000>>, <<10120, 10000>>, <<10150, 10000>>, <<9700, 10000>> }

\* today's volume and the sum of the last 30 volumes
VolumeChoices == { <<1000, 30000>>, <<1294, 30000>>, <<1296, 30000>>, <<1300, 30000>>,
                   <<130, 3029>>, <<500, 0>> }

BarCounts == {0, 20, 40, 250}

\* the indicator values the history yields when it is long enough
RsiChoices == {0, 300000, 500000, 700000, 1000000}

MacdChoices == {"bullish", "bearish_crossover"}

SmaChoices == { <<10000, 10500>>, <<10100, 10000>> }

StdDevChoices == {50, 100}

ScanInputs ==
    { [is_none |-> FALSE, n_bars |-> n, close |-> c[1], prev_close |-> c[2],
       volume_today |-> v[1], volume_tail_sum |-> v[2], std_dev |-> sd,
       sma_20 |-> sma[1], sma_50 |-> sma[2], rsi_14 |-> rsi, macd_signal |-> macd] :
      n \in BarCounts, c \in CloseChoices, v \in VolumeChoices, sd \in StdDevChoices,
      sma \in SmaChoices, rsi \in RsiChoices, macd \in MacdChoices }

\* main.py lines 149-154 and 163, for one ticker
ScanTicker ==
    /\ scan_result.status = "pending"
    /\ LET price_data == IF bars.n_bars # 0 THEN calculate_price_data(bars)
                         ELSE NoPriceData
       IN  scan_result' =
               [status     |-> "scanned",
                price_data |-> price_data,
                focus_list |-> generate_focus_list(
                                   << [ticker |-> 1, df |-> bars,
                                       price_data |-> price_data] >>)]
    /\ UNCHANGED << riskVars, risk_mode, engineVars, checkVars, radarVars, bars,
                    rsiVars, runVars, serverVars >>

InitScan ==
    /\ vix_level = 20
    /\ vix_5d_avg = 20
    /\ risk_mode = "unset"
    /\ portfolio = NoPortfolio
    /\ focus_list = << >>
    /\ rec_result = [status |-> "pending", recommendations |-> << >>]
    /\ val_result = [status |-> "pending", violations |-> << >>]
    /\ size_result = [status |-> "pending"]
    /\ market_data = << >>
    /\ radar_result = [status |-> "pending", focus_list |-> << >>]
    /\ bars \in ScanInputs
    /\ scan_result = [status |-> "pending"]
    /\ IdleRsi
    /\ IdleRun
    /\ IdleServer

NextScan == ScanTicker

SpecScan == InitScan /\ [][NextScan]_vars

-----------------------------------------------------------------------------
(* The relative strength index: backend/core/radar_scan.py, calculate_rsi.
   Closes are in cents, the index in units of 1e-4 (RSI 70 -> 700000). *)

\* TECHNICAL_PARAMS['rsi_period']
rsi_period == 14

\* series of closes have up to MaxSeriesLen bars
MaxSeriesLen == 16

\* the float returned by calculate_rsi: None, a number, or NaN
NoRsi == [kind |-> "none", value |-> 0]

NanRsi == [kind |-> "nan", value |-> 0]

\* lines 42-70: simple rolling means of the gains and of the losses over the
\* last `period` changes; avg_gains / avg_losses is a float division, so a
\* window without losses gives rs = inf (RSI 100) when it has gains and
\* rs = 0 / 0 = NaN (RSI NaN) when it has none
calculate_rsi(closes, period) ==
    IF Len(closes) < period + 1
    THEN NoRsi
    ELSE LET n        == Len(closes)
             delta(i) == closes[i] - closes[i - 1]
             gains    == Sum([ k \in 1 .. period |-> Max(delta(n - period + k), 0) ])
             losses   == Sum([ k \in 1 .. period |-> Max(-delta(n - period + k), 0) ])
         IN  IF losses = 0
             THEN (IF gains = 0 THEN NanRsi ELSE [kind |-> "value", value |-> 1000000])
             ELSE [kind  |-> "value",
                   value |-> RoundDiv(1000000 * gains, gains + losses)]

\* the closes that start at 100.00 and move by the given changes
RECURSIVE ClosesFrom(_, _)
ClosesFrom(start, changes) ==
    IF changes = << >> THEN << start >>
    ELSE << start >> \o ClosesFrom(start + Head(changes), Tail(changes))

\* daily changes: a rise of 1.00, no change, a fall of 0.50
ChangeKinds == {100, 0, -50}

\* series of 13 to MaxSeriesLen closes made of three stretches of equal daily
\* changes (any of which may be empty): all rising, all flat, all falling,
\* and the mixtures
CloseSeries ==
    { ClosesFrom(10000, [ i \in 1 .. (n - 1) |->
                            IF i <= a THEN x ELSE IF i <= a + b THEN y ELSE z ]) :
      n \in (rsi_period - 1) .. MaxSeriesLen,
      a \in 0 .. (MaxSeriesLen - 1), b \in 0 .. (MaxSeriesLen - 1),
      x \in ChangeKinds, y \in ChangeKinds, z \in ChangeKinds }

\* calculate_technical_indicators line 182
CalculateRsi ==
    /\ rsi_result.status = "pending"
    /\ rsi_result' = [status |-> "returned", rsi |-> calculate_rsi(prices, rsi_period)]
    /\ UNCHANGED << riskVars, risk_mode, engineVars, checkVars, radarVars, scanVars,
                    prices, runVars, serverVars >>

InitRsi ==
    /\ vix_level = 20
    /\ vix_5d_avg = 20
    /\ risk_mode = "unset"
    /\ portfolio = NoPortfolio
    /\ focus_list = << >>
    /\ rec_result = [status |-> "pending", recommendations |-> << >>]
    /\ val_result = [status |-> "pending", violations |-> << >>]
    /\ size_result = [status |-> "pending"]
    /\ market_data = << >>
    /\ radar_result = [status |-> "pending", focus_list |-> << >>]
    /\ bars = NoBars
    /\ scan_result = [status |-> "pending"]
    /\ prices \in CloseSeries
    /\ rsi_result = [status |-> "pending"]
    /\ IdleRun
    /\ IdleServer

NextRsi == CalculateRsi

SpecRsi == InitRsi /\ [][NextRsi]_vars

-----------------------------------------------------------------------------
(* The scalpel dive: backend/core/scalpel_dive.py *)

\* what the news provider and the sentiment service answer for one ticker:
\* articles is FALSE when fetch_news returns [] (no key, request error, no news);
\* llm is "none" when analyze_news returns None (service not configured, request
\* error), "result" when the parsed answer is complete, and "no_summary" when
\* the answer is a JSON object without the key 'summary', which
\* _parse_news_analysis_response returns as it is
NewsOutcome(articles, llm, sentiment_score, relevance_score) ==
    [articles |-> articles, llm |-> llm,
     sentiment_score |-> sentiment_score, relevance_score |-> relevance_score]

NoArticles == NewsOutcome(FALSE, "none", 0, 0)

LlmFailed == NewsOutcome(TRUE, "none", 0, 0)

\* lines 59-101: the NewsAnalysis built for one entry
news_analysis_for(outcome) ==
    IF ~outcome.articles
    THEN [present |-> TRUE, sentiment_score |-> 0, relevance_score |-> 0]
    ELSE IF outcome.llm # "none"
    THEN [present |-> TRUE, sentiment_score |-> outcome.sentiment_score,
          relevance_score |-> outcome.relevance_score]
    ELSE [present |-> TRUE, sentiment_score |-> 0, relevance_score |-> 50]

\* line 49, etf_info['name']: every row of the table has a 'name', so this is a
\* KeyError exactly for a ticker the table does not hold; line 85,
\* llm_result['summary']: a KeyError when the parsed answer has no such key
scalpel_dive_raises(focus_item, outcome) ==
    \/ focus_item.ticker \notin KnownTickers
    \/ outcome.articles /\ outcome.llm = "no_summary"

\* the loop over the focus list; nothing in it catches an exception
perform_scalpel_dive(fl, news) ==
    IF \E i \in DOMAIN fl : scalpel_dive_raises(fl[i], news[fl[i].ticker])
    THEN [status |-> "raised", focus_list |-> << >>]
    ELSE [status     |-> "returned",
          focus_list |-> [ i \in DOMAIN fl |->
                             [fl[i] EXCEPT !.news_analysis =
                                  news_analysis_for(news[fl[i].ticker])] ]]

-----------------------------------------------------------------------------
(* The daily run: backend/main.py, run_daily_analysis *)

\* get_all_tickers: the keys of the universe table, in table order
get_all_tickers == << "IVV", "AGG", "IEMG", "IYW", "ITA" >>

\* what a ticker can look like on the day of the run: quiet; a volume spike on a
\* rising day with bullish MACD and RSI 25; a 3% fall with bearish MACD and RSI 75
RunSamples ==
    << [df |-> Frame(250, 100, 10000, 10500, 500000, "bullish"),
        price_data |-> Price(10000, 50)],
       [df |-> Frame(250, 100, 10000, 10500, 250000, "bullish"),
        price_data |-> Price(15000, 50)],
       [df |-> Frame(250, 100, 10000, 10500, 750000, "bearish"),
        price_data |-> Price(10000, -300)] >>

\* the tickers whose market data and news vary from run to run
ActiveTickers == {"IVV", "IEMG", "ITA"}

\* fetch_etf_data answers: one frame per ticker of the universe
MarketAnswers ==
    { [ i \in DOMAIN get_all_tickers |->
          LET t == get_all_tickers[i]
              k == IF t \in ActiveTickers THEN c[t] ELSE 1
          IN  [ticker |-> t, df |-> RunSamples[k].df,
               price_data |-> RunSamples[k].price_data] ] :
      c \in [ActiveTickers -> 1 .. 3] }

\* per ticker: no articles, no answer, a positive or a negative answer; for ITA
\* also an answer without 'summary'
NewsAnswers ==
    { [ t \in KnownTickers |->
          IF t \in ActiveTickers THEN n[t] ELSE NoArticles ] :
      n \in { f \in [ActiveTickers -> { NoArticles, LlmFailed,
                                        NewsOutcome(TRUE, "result", 51, 71),
                                        NewsOutcome(TRUE, "result", -31, 71),
                                        NewsOutcome(TRUE, "no_summary", 51, 71) }] :
                  \A t \in ActiveTickers \ {"ITA"} : f[t].llm # "no_summary" } }

\* snapshots portfolio_storage.load can return: within the limits; holding one
\* lot of everything; empty with no cash; holding a ticker outside the universe
RunSnapshots ==
    { MakePortfolio(Holding(2, 1, 0, 0, 0, 0), 6000),
      MakePortfolio(Holding(1, 1, 1, 1, 1, 0), 6000),
      MakePortfolio(Holding(0, 0, 0, 0, 0, 0), 0),
      MakePortfolio(Holding(2, 0, 1, 0, 0, 1), 6000) }

\* the answers of the outside world to one run: the snapshot or None, the
\* frames or the empty dictionary, the VIX readings or none, the news and
\* sentiment answers, and whether the analysis file can be written
ProviderAnswers(portfolio_found) ==
    { [status |-> "set", portfolio_found |-> portfolio_found, portfolio |-> p,
       market_ok |-> m # << >>, market |-> m, vix_ok |-> vo, news |-> n,
       save_ok |-> so] :
      p \in (IF portfolio_found THEN RunSnapshots ELSE {NoPortfolio}),
      m \in MarketAnswers \cup {<< >>},
      vo \in BOOLEAN, n \in NewsAnswers, so \in BOOLEAN }

\* lines 119-132, step 1: the snapshot is loaded, or the run raises RuntimeError
LoadPortfolio ==
    /\ run.pc = "load"
    /\ IF providers.portfolio_found
       THEN /\ portfolio' = providers.portfolio
            /\ run' = [run EXCEPT !.pc = "fetch", !.progress = 125]
       ELSE /\ portfolio' = portfolio
            /\ run' = [run EXCEPT !.pc = "raised", !.exception = "RuntimeError",
                                  !.raised_in = "load",
                                  !.errors = Append(@, "Portfolio state not found")]
    /\ UNCHANGED << riskVars, risk_mode, focus_list, rec_result, checkVars,
                    radarVars, scanVars, rsiVars, providers, serverVars >>

\* lines 134-157, step 2: a failed fetch is the empty dictionary and an error
\* entry; the PriceData of every frame is computed
FetchMarketData ==
    /\ run.pc = "fetch"
    /\ market_data' = IF providers.market_ok THEN providers.market ELSE << >>
    /\ run' = [run EXCEPT !.pc = "scan", !.progress = 250,
                          !.errors = IF providers.market_ok THEN @
                                     ELSE Append(@, "Failed to fetch market data")]
    /\ UNCHANGED << riskVars, risk_mode, engineVars, checkVars, radar_result,
                    scanVars, rsiVars, providers, serverVars >>

\* lines 159-167, step 3
RunRadarScan ==
    /\ run.pc = "scan"
    /\ focus_list' = generate_focus_list(market_data)
    /\ run' = [run EXCEPT !.pc = "vix", !.progress = 375]
    /\ UNCHANGED << riskVars, risk_mode, portfolio, rec_result, checkVars,
                    radarVars, scanVars, rsiVars, providers, serverVars >>

\* data_fetcher.fetch_vix: the readings, or 20.0 / 20.0 when there are none
fetch_vix(vix_ok) ==
    IF vix_ok THEN [vix_level |-> 30, vix_5d_avg |-> 30]
    ELSE [vix_level |-> 20, vix_5d_avg |-> 20]

\* lines 169-181, step 4
FetchVixAndRiskMode ==
    /\ run.pc = "vix"
    /\ LET vix == fetch_vix(providers.vix_ok)
       IN  /\ vix_level' = vix.vix_level
           /\ vix_5d_avg' = vix.vix_5d_avg
           /\ risk_mode' = determine_risk_mode(vix.vix_level, vix.vix_5d_avg)
    /\ run' = [run EXCEPT !.pc = "assess", !.progress = 500]
    /\ UNCHANGED << engineVars, checkVars, radarVars, scanVars, rsiVars,
                    providers, serverVars >>

\* lines 183-209: log_risk_assessment calls validate_portfolio, whose exceptions
\* are not caught
AssessRisk ==
    /\ run.pc = "assess"
    /\ val_result' = validate_all(portfolio)
    /\ run' = IF val_result'.status = "raised"
              THEN [run EXCEPT !.pc = "raised", !.exception = val_result'.error,
                               !.raised_in = "assess"]
              ELSE [run EXCEPT !.pc = "dive"]
    /\ UNCHANGED << riskVars, risk_mode, engineVars, size_result, radarVars,
                    scanVars, rsiVars, providers, serverVars >>

\* lines 211-228, step 5 (settings.enable_news_analysis and enable_llm_analysis
\* at their default True): the whole batch, or the skip for an empty focus list
ScalpelDive ==
    /\ run.pc = "dive"
    /\ IF focus_list # << >>
       THEN LET enriched == perform_scalpel_dive(focus_list, providers.news)
            IN  /\ focus_list' = IF enriched.status = "raised" THEN focus_list
                                  ELSE enriched.focus_list
                /\ run' = IF enriched.status = "raised"
                          THEN [run EXCEPT !.pc = "raised", !.exception = "KeyError",
                                           !.raised_in = "dive"]
                          ELSE [run EXCEPT !.pc = "recommend", !.progress = 625,
                                           !.dived = TRUE]
       ELSE /\ focus_list' = focus_list
            /\ run' = [run EXCEPT !.pc = "recommend", !.progress = 625,
                                  !.warnings = Append(@, "Empty Focus List")]
    /\ UNCHANGED << riskVars, risk_mode, portfolio, rec_result, checkVars,
                    radarVars, scanVars, rsiVars, providers, serverVars >>

\* lines 230-239, step 6: no handler around generate_recommendations
SynthesizeRecommendations ==
    /\ run.pc = "recommend"
    /\ rec_result' = generate_recommendations(portfolio, risk_mode, focus_list)
    /\ run' = IF rec_result'.status = "raised"
              THEN [run EXCEPT !.pc = "raised", !.exception = "KeyError",
                               !.raised_in = "recommend"]
              ELSE [run EXCEPT !.pc = "save", !.progress = 750]
    /\ UNCHANGED << riskVars, risk_mode, portfolio, focus_list, checkVars,
                    radarVars, scanVars, rsiVars, providers, serverVars >>

\* lines 241-333, steps 7 and 8: the DailyAnalysis is built and handed to
\* analysis_storage.save, which returns False instead of raising
SaveAnalysis ==
    /\ run.pc = "save"
    /\ run' = [run EXCEPT !.pc = "done", !.progress = 1000,
                          !.saved = providers.save_ok,
                          !.errors = IF providers.save_ok THEN @
                                     ELSE Append(@, "Failed to save analysis file")]
    /\ UNCHANGED << riskVars, risk_mode, engineVars, checkVars, radarVars,
                    scanVars, rsiVars, providers, serverVars >>

InitRun ==
    /\ vix_level = 0
    /\ vix_5d_avg = 0
    /\ risk_mode = "unset"
    /\ portfolio = NoPortfolio
    /\ focus_list = << >>
    /\ rec_result = [status |-> "pending", recommendations |-> << >>]
    /\ val_result = [status |-> "pending", violations |-> << >>]
    /\ size_result = [status |-> "pending"]
    /\ market_data = << >>
    /\ radar_result = [status |-> "pending", focus_list |-> << >>]
    /\ bars = NoBars
    /\ scan_result = [status |-> "pending"]
    /\ IdleRsi
    /\ \E portfolio_found \in BOOLEAN : providers \in ProviderAnswers(portfolio_found)
    /\ run = [pc |-> "load", progress |-> 0, exception |-> "none",
              raised_in |-> "none", errors |-> << >>,
              warnings |-> << >>, dived |-> FALSE, saved |-> FALSE]
    /\ IdleServer

NextRun ==
    \/ LoadPortfolio
    \/ FetchMarketData
    \/ RunRadarScan
    \/ FetchVixAndRiskMode
    \/ AssessRisk
    \/ ScalpelDive
    \/ SynthesizeRecommendations
    \/ SaveAnalysis

SpecRun == InitRun /\ [][NextRun]_vars

-----------------------------------------------------------------------------
(* The API server: backend/api/server.py.
   The request handlers are coroutines without an await, so each runs to its
   end on the event loop; every accepted start request creates a thread that
   runs run_analysis_task concurrently with the handlers and with the other
   threads.  Progress is in tenths of a percent (100 -> 1000). *)

\* POST /api/analysis/start is requested up to MaxRequests times
MaxRequests == 3

\* write_progress: the flag is read when the file is written
write_progress(progress, message) ==
    [running |-> analysis_running, progress |-> progress, message |-> message]

\* main.py update_progress, run by the subprocess on the same file: "running"
\* is the literal True
update_progress(progress, message) ==
    [running |-> TRUE, progress |-> progress, message |-> message]

\* get_progress: the progress file exists from startup_event on, and is read
get_progress ==
    [status |-> "read", running |-> progress_file.running,
     progress |-> progress_file.progress, message |-> progress_file.message]

\* how python main.py can end: exit code 0 after its last update_progress; exit
\* code 1 after its first update_progress (run_daily_analysis raised); exit code
\* 1 before any update (configuration error); subprocess.run itself raising
SubprocessOutcomes == {"ok", "failed", "failed_early", "raised"}

\* start_analysis: 409 while the flag is set, otherwise a thread is started
StartAnalysis ==
    /\ Len(responses) < MaxRequests
    /\ IF analysis_running
       THEN /\ responses' = Append(responses, [code |-> 409, thread |-> 0])
            /\ threads' = threads
       ELSE /\ threads' = Append(threads, [pc |-> "started", outcome |-> "none"])
            /\ responses' = Append(responses, [code |-> 200, thread |-> Len(threads) + 1])
    /\ UNCHANGED << riskVars, risk_mode, engineVars, checkVars, radarVars, scanVars,
                    rsiVars, runVars, analysis_running, progress_file, status_read >>

\* run_analysis_task line 125: analysis_running = True
SetRunning(i) ==
    /\ i \in DOMAIN threads
    /\ threads[i].pc = "started"
    /\ analysis_running' = TRUE
    /\ threads' = [threads EXCEPT ![i].pc = "flagged"]
    /\ UNCHANGED << riskVars, risk_mode, engineVars, checkVars, radarVars, scanVars,
                    rsiVars, runVars, progress_file, responses, status_read >>

\* line 126: write_progress(0, "Starting analysis...")
WriteStart(i) ==
    /\ i \in DOMAIN threads
    /\ threads[i].pc = "flagged"
    /\ progress_file' = write_progress(0, "Starting analysis...")
    /\ threads' = [threads EXCEPT ![i].pc = "subprocess"]
    /\ UNCHANGED << riskVars, risk_mode, engineVars, checkVars, radarVars, scanVars,
                    rsiVars, runVars, analysis_running, responses, status_read >>

\* lines 129-134: subprocess.run([python, "main.py"]) until the subprocess ends
RunSubprocess(i) ==
    /\ i \in DOMAIN threads
    /\ threads[i].pc = "subprocess"
    /\ \E outcome \in SubprocessOutcomes :
          /\ threads' = [threads EXCEPT ![i].pc = "exited", ![i].outcome = outcome]
          /\ progress_file' =
                 CASE outcome = "ok"     -> update_progress(1000, "Analysis complete!")
                   [] outcome = "failed" -> update_progress(0, "Initializing analysis...")
                   [] OTHER              -> progress_file
    /\ UNCHANGED << riskVars, risk_mode, engineVars, checkVars, radarVars, scanVars,
                    rsiVars, runVars, analysis_running, responses, status_read >>

\* lines 136-145: write_progress(100, "Complete!") for exit code 0, otherwise
\* write_progress(0, "Error: ..."), from the else branch or the except clause
WriteFinal(i) ==
    /\ i \in DOMAIN threads
    /\ threads[i].pc = "exited"
    /\ progress_file' = IF threads[i].outcome = "ok"
                        THEN write_progress(1000, "Complete!")
                        ELSE write_progress(0, "Error")
    /\ threads' = [threads EXCEPT ![i].pc = "finishing"]
    /\ UNCHANGED << riskVars, risk_mode, engineVars, checkVars, radarVars, scanVars,
                    rsiVars, runVars, analysis_running, responses, status_read >>

\* lines 146-147: finally: analysis_running = False
ClearRunning(i) ==
    /\ i \in DOMAIN threads
    /\ threads[i].pc = "finishing"
    /\ analysis_running' = FALSE
    /\ threads' = [threads EXCEPT ![i].pc = "finished"]
    /\ UNCHANGED << riskVars, risk_mode, engineVars, checkVars, radarVars, scanVars,
                    rsiVars, runVars, progress_file, responses, status_read >>

\* the next statement of thread i
TaskStep(i) ==
    SetRunning(i) \/ WriteStart(i) \/ RunSubprocess(i) \/ WriteFinal(i) \/ ClearRunning(i)

\* GET /api/analysis/progress
GetAnalysisProgress ==
    /\ status_read' = get_progress
    /\ UNCHANGED << riskVars, risk_mode, engineVars, checkVars, radarVars, scanVars,
                    rsiVars, runVars, analysis_running, progress_file, threads,
                    responses >>

InitServer ==
    /\ vix_level = 20
    /\ vix_5d_avg = 20
    /\ risk_mode = "unset"
    /\ portfolio = NoPortfolio
    /\ focus_list = << >>
    /\ rec_result = [status |-> "pending", recommendations |-> << >>]
    /\ val_result = [status |-> "pending", violations |-> << >>]
    /\ size_result = [status |-> "pending"]
    /\ market_data = << >>
    /\ radar_result = [status |-> "pending", focus_list |-> << >>]
    /\ bars = NoBars
    /\ scan_result = [status |-> "pending"]
    /\ IdleRsi
    /\ IdleRun
    /\ IdleServer

NextServer ==
    \/ StartAnalysis
    \/ \E i \in DOMAIN threads : SetRunning(i)
    \/ \E i \in DOMAIN threads : WriteStart(i)
    \/ \E i \in DOMAIN threads : RunSubprocess(i)
    \/ \E i \in DOMAIN threads : WriteFinal(i)
    \/ \E i \in DOMAIN threads : ClearRunning(i)
    \/ GetAnalysisProgress

SpecServer == InitServer /\ [][NextServer]_vars

\* every started thread is scheduled again and again and its subprocess ends:
\* weak fairness on the statements of each thread
SpecServerFair ==
    SpecServer /\ \A i \in 1 .. MaxRequests : WF_vars(TaskStep(i))

-----------------------------------------------------------------------------
(* C1 *)

ModeRank(m) == CASE m = "extreme_complacency" -> 0
                 [] m = "normal"              -> 1
                 [] m = "caution"             -> 2
                 [] m = "risk_off"            -> 3
                 [] OTHER                     -> -1

\* the regime the thresholds 15 / 25 / 35 select for the larger of the two readings
RegimeOfLarger(level, avg) ==
    LET m == IF level >= avg THEN level ELSE avg
    IN  CASE m < 15            -> "extreme_complacency"
          [] m >= 15 /\ m < 25 -> "normal"
          [] m >= 25 /\ m < 35 -> "caution"
          [] m >= 35           -> "risk_off"

-----------------------------------------------------------------------------
(* Claims about the synthesizer (SpecEngine) *)

Recs == rec_result.recommendations

IsHeld(ticker) == ticker \in DOMAIN portfolio.positions

\* the focus-list entry a recommendation was made for (tickers are unique in a list)
EntryOf(ticker) ==
    focus_list[CHOOSE i \in DOMAIN focus_list : focus_list[i].ticker = ticker]

\* C2: the regime override is the last step of action resolution: no recommendation
\* emitted in risk-off is an entry or an add (one resolved to entry/add by the
\* sentiment step is emitted as HOLD), none emitted in caution is an add, and an
\* action that is trim or exit after the sentiment step is emitted unchanged.
C2_RegimeOverrideLast ==
    rec_result.status = "returned" =>
        \A k \in DOMAIN Recs :
            LET r    == Recs[k]
                post == sentiment_step(EntryOf(r.ticker), IsHeld(r.ticker))
            IN  /\ risk_mode = "risk_off" =>
                      /\ r.action \notin {"INITIATE", "ADD"}
                      /\ post \in {"INITIATE", "ADD"} => r.action = "HOLD"
                /\ risk_mode = "caution" =>
                      /\ r.action # "ADD"
                      /\ post = "ADD" => r.action = "HOLD"
                /\ post \in {"TRIM", "SELL"} => r.action = post

\* witness: in risk-off, an entry the sentiment step resolved to add is emitted as HOLD
C2_Witness ==
    /\ rec_result.status = "returned"
    /\ risk_mode = "risk_off"
    /\ \E k \in DOMAIN Recs :
          /\ Recs[k].action = "HOLD"
          /\ sentiment_step(EntryOf(Recs[k].ticker), IsHeld(Recs[k].ticker)) = "ADD"

\* C3: every returned recommendation has a target allocation at or below the
\* single-position cap (30%), whatever its action and the position's weight.
C3_TargetWithinPositionCap ==
    rec_result.status = "returned" =>
        \A k \in DOMAIN Recs :
            Recs[k].allocation.target_allocation <= single_position_max

\* an entry whose sizing completes with a trade delta of 0
ZeroDelta(focus_item) ==
    LET held   == IsHeld(focus_item.ticker)
        action == determine_action(focus_item, held, risk_mode)
    IN  /\ ~target_allocation_raises(focus_item, action)
        /\ calculate_allocation_details(
               portfolio, focus_item.ticker,
               calculate_target_allocation(portfolio, focus_item, action, held),
               held).shares_to_trade = 0

\* C4: no returned recommendation has shares_to_trade = 0; an entry whose trade
\* delta is 0 yields no recommendation, and on its own it yields no error either.
C4_NoZeroDeltaRecommendation ==
    rec_result.status # "pending" =>
        /\ \A k \in DOMAIN Recs :
              /\ Recs[k].allocation.shares_to_trade # 0
              /\ Recs[k].allocation.shares_to_trade =
                     Recs[k].allocation.shares_target - Recs[k].allocation.shares_current
        /\ \A i \in DOMAIN focus_list :
              ZeroDelta(focus_list[i]) =>
                  /\ \A k \in DOMAIN Recs : Recs[k].ticker # focus_list[i].ticker
                  /\ Len(focus_list) = 1 => rec_result.status = "returned"

\* witness: a held ticker resolved to HOLD with delta 0 is dropped, its neighbour kept
C4_Witness ==
    /\ rec_result.status = "returned"
    /\ Len(focus_list) >= 2
    /\ Len(Recs) >= 1
    /\ \E i \in DOMAIN focus_list :
          /\ IsHeld(focus_list[i].ticker)
          /\ ZeroDelta(focus_list[i])

\* the snapshot passes all five validator checks
SnapshotWithinLimits ==
    /\ validate_all(portfolio).status = "returned"
    /\ validate_all(portfolio).violations = << >>

\* C5: from a snapshot within its limits, moving a ticker to its recommended target
\* leaves the position within the 30% cap, the ticker's sector within the 50% cap
\* and, for a core ticker, the core allocation within its band.
C5_TargetsCheckedAgainstCeilings ==
    (rec_result.status = "returned" /\ SnapshotWithinLimits) =>
        \A k \in DOMAIN Recs :
            LET r      == Recs[k]
                info   == get_etf_info(r.ticker)
                change == r.allocation.allocation_change
            IN  /\ r.allocation.target_allocation <= single_position_max
                /\ HasKey(info, "sector") =>
                      LET before == IF HasKey(portfolio.sector_breakdown, info.sector)
                                    THEN portfolio.sector_breakdown[info.sector] ELSE 0
                      IN  before + change <= sector_max
                /\ (HasKey(info, "category") /\ info.category = "Core") =>
                      /\ portfolio.core + change >= core_min
                      /\ portfolio.core + change <= core_max

\* C6: a failure on one entry rejects only that entry: the call returns, and it
\* returns the recommendation of every entry that evaluates to one.
C6_EntryFailureIsolated ==
    rec_result.status # "pending" =>
        /\ rec_result.status = "returned"
        /\ \A i \in DOMAIN focus_list :
              LET o == generate_recommendation_for_focus_item(
                           portfolio, risk_mode, focus_list[i])
              IN  o.kind = "rec" => \E k \in DOMAIN Recs : Recs[k] = o.rec

\* C13: every recommendation's target shares are
\* floor(total value x target allocation / current price) at the ticker's actual
\* current price (the position's price when held, the price of the focus-list
\* snapshot when not), and its trade delta is target shares minus shares held.
C13_SharesAtActualPrice ==
    rec_result.status = "returned" =>
        \A k \in DOMAIN Recs :
            LET r     == Recs[k]
                price == IF IsHeld(r.ticker)
                         THEN portfolio.positions[r.ticker].current_price
                         ELSE EntryOf(r.ticker).current_price
                held  == IF IsHeld(r.ticker)
                         THEN portfolio.positions[r.ticker].shares ELSE 0
            IN  /\ r.allocation.shares_target =
                       (portfolio.total_value * r.allocation.target_allocation)
                           \div (10000 * price)
                /\ r.allocation.shares_to_trade = r.allocation.shares_target - held

\* the action the sentiment rule gives an entry: upgrade a neutral action on a
\* score above 0.5, trim a held ticker on a score below -0.3, else no change
AfterSentiment(entry, held) ==
    LET news == entry.news_analysis
    IN  IF news.present /\ news.sentiment_score > 50 /\ entry.recommendation = "HOLD"
        THEN (IF held THEN "ADD" ELSE "INITIATE")
        ELSE IF news.present /\ news.sentiment_score < -30 /\ held
        THEN "TRIM"
        ELSE entry.recommendation

\* C14: the sentiment step acts on the preliminary action before the regime
\* override: where the regime overrides nothing (extreme-complacency, normal) a
\* recommendation's action is the sentiment rule's result; in caution and
\* risk-off it is that result with the regime's add / entry turned to HOLD.
C14_SentimentStep ==
    rec_result.status = "returned" =>
        \A k \in DOMAIN Recs :
            LET r    == Recs[k]
                post == AfterSentiment(EntryOf(r.ticker), IsHeld(r.ticker))
            IN  CASE risk_mode \in {"extreme_complacency", "normal"} -> r.action = post
                  [] risk_mode = "caution" ->
                         r.action = (IF post = "ADD" THEN "HOLD" ELSE post)
                  [] risk_mode = "risk_off" ->
                         r.action = (IF post \in {"ADD", "INITIATE"} THEN "HOLD" ELSE post)
                  [] OTHER -> FALSE

\* witness: in the normal regime a held ticker's preliminary exit is turned to
\* trim by a score just below -0.3
C14_Witness ==
    /\ rec_result.status = "returned"
    /\ risk_mode = "normal"
    /\ \E k \in DOMAIN Recs :
          /\ Recs[k].action = "TRIM"
          /\ EntryOf(Recs[k].ticker).recommendation = "SELL"
          /\ EntryOf(Recs[k].ticker).news_analysis.sentiment_score = -31

\* C15: a recommendation's target allocation is determined by its action and the
\* ticker's current weight: HOLD the current weight (0 if not held), entry 10%
\* for a major-satellite ticker and 5% otherwise, add min(current + 3%, 30%),
\* trim max(current - 3%, 0), exit 0.
C15_TargetByAction ==
    rec_result.status = "returned" =>
        \A k \in DOMAIN Recs :
            LET r       == Recs[k]
                current == IF IsHeld(r.ticker)
                           THEN portfolio.positions[r.ticker].weight ELSE 0
                target  == r.allocation.target_allocation
            IN  /\ r.allocation.current_allocation = current
                /\ r.action = "HOLD" => target = current
                /\ r.action = "INITIATE" =>
                       target = (IF ETF_UNIVERSE[r.ticker].category = "Major Satellite"
                                 THEN 1000 ELSE 500)
                /\ r.action = "ADD" =>
                       target = (IF current + 300 <= 3000 THEN current + 300 ELSE 3000)
                /\ r.action = "TRIM" =>
                       target = (IF current - 300 >= 0 THEN current - 300 ELSE 0)
                /\ r.action = "SELL" => target = 0

\* witness: an add whose 3% step is cut at the 30% cap, beside an entry into a
\* major-satellite ticker at 10%
C15_Witness ==
    /\ rec_result.status = "returned"
    /\ \E k \in DOMAIN Recs :
          /\ Recs[k].action = "ADD"
          /\ Recs[k].allocation.current_allocation + 300 > 3000
          /\ Recs[k].allocation.target_allocation = 3000
    /\ \E k \in DOMAIN Recs :
          /\ Recs[k].action = "INITIATE"
          /\ Recs[k].allocation.target_allocation = 1000

\* C16: a recommendation's confidence is min(0.95, 0.70 + 0.10 if the trigger
\* magnitude is above 2.0 + 0.10 if relevance is above 0.7 and the score above 0.5
\* + 0.05 if relevance is above 0.7 and the score below -0.3), absent sentiment
\* adding nothing; so it lies in [0, 0.95].  (Hundredths.)
C16_ConfidenceFormula ==
    rec_result.status = "returned" =>
        \A k \in DOMAIN Recs :
            LET entry == EntryOf(Recs[k].ticker)
                news  == entry.news_analysis
                sum   == 70 + (IF entry.trigger_value > 20000 THEN 10 ELSE 0)
                            + (IF news.present /\ news.relevance_score > 70
                                  /\ news.sentiment_score > 50 THEN 10 ELSE 0)
                            + (IF news.present /\ news.relevance_score > 70
                                  /\ news.sentiment_score < -30 THEN 5 ELSE 0)
            IN  /\ Recs[k].confidence = (IF sum <= 95 THEN sum ELSE 95)
                /\ Recs[k].confidence \in 0..95

\* witness: a trigger of exactly 2.0 earns no bonus, relevant negative news 0.05
C16_Witness ==
    /\ rec_result.status = "returned"
    /\ \E k \in DOMAIN Recs :
          /\ Recs[k].confidence = 75
          /\ EntryOf(Recs[k].ticker).trigger_value = 20000

\* C17: a recommendation's priority is high exactly when its action is exit or
\* entry and its confidence is strictly above 0.8, medium exactly when its action
\* is add or trim, and low in every other case.
C17_PriorityRule ==
    rec_result.status = "returned" =>
        \A k \in DOMAIN Recs :
            LET r == Recs[k]
            IN  /\ r.priority \in PriorityLevel
                /\ r.priority = "high" <=>
                       (r.action \in {"SELL", "INITIATE"} /\ r.confidence > 80)
                /\ r.priority = "medium" <=> r.action \in {"ADD", "TRIM"}
                /\ r.priority = "low" <=>
                       ~((r.action \in {"SELL", "INITIATE"} /\ r.confidence > 80)
                           \/ r.action \in {"ADD", "TRIM"})

\* witness: an entry or exit with confidence exactly 0.8 is low
C17_Witness ==
    /\ rec_result.status = "returned"
    /\ \E k \in DOMAIN Recs :
          /\ Recs[k].action \in {"SELL", "INITIATE"}
          /\ Recs[k].confidence = 80
          /\ Recs[k].priority = "low"

PriorityRank(priority) == CASE priority = "high"   -> 0
                            [] priority = "medium" -> 1
                            [] OTHER               -> 2

\* position of a ticker's entry in the focus list
FocusIndex(ticker) ==
    CHOOSE i \in DOMAIN focus_list : focus_list[i].ticker = ticker

\* C18: the returned list is ordered by priority (every high before every medium,
\* every medium before every low), and recommendations of one tier keep the
\* relative order of their focus-list entries.
C18_OrderedByPriority ==
    rec_result.status = "returned" =>
        \A i, j \in DOMAIN Recs :
            i < j =>
                /\ PriorityRank(Recs[i].priority) <= PriorityRank(Recs[j].priority)
                /\ Recs[i].priority = Recs[j].priority =>
                       FocusIndex(Recs[i].ticker) < FocusIndex(Recs[j].ticker)

\* witness: three recommendations, the first two of one tier, the last one made
\* for the entry that came first in the focus list
C18_Witness ==
    /\ rec_result.status = "returned"
    /\ Len(Recs) = 3
    /\ Recs[1].priority = Recs[2].priority
    /\ Recs[3].priority # Recs[1].priority
    /\ FocusIndex(Recs[3].ticker) = 1

\* C26: for every emitted recommendation the direction of the trade agrees with
\* its action: INITIATE and ADD buy (shares_to_trade > 0), TRIM and SELL sell
\* (shares_to_trade < 0), and HOLD never yields an emitted recommendation, for
\* every held position weight and share count.
C26_TradeDirectionAgrees ==
    rec_result.status = "returned" =>
        \A k \in DOMAIN Recs :
            /\ Recs[k].action \in {"INITIATE", "ADD"} =>
                   Recs[k].allocation.shares_to_trade > 0
            /\ Recs[k].action \in {"TRIM", "SELL"} =>
                   Recs[k].allocation.shares_to_trade < 0
            /\ Recs[k].action # "HOLD"

-----------------------------------------------------------------------------
(* Claims about the validator and the sizing function (SpecCheck) *)

\* C7: validate_all never raises; whatever the snapshot it returns (isValid, violations).
C7_ValidateAllNeverRaises ==
    val_result.status # "pending" =>
        /\ val_result.status = "returned"
        /\ val_result.is_valid = (val_result.violations = << >>)

\* C8: after adding the amount calculate_safe_position_size returns, the ticker's
\* position is within the 30% cap and its sector within the 50% cap; the amount
\* is 0 when the sector is at or past its cap.  (Money in cents.)
C8_SafeSizeWithinBothCaps ==
    size_result.status = "returned" =>
        LET t       == size_result.ticker
            total   == portfolio.total_value
            held_mv == IF t \in DOMAIN portfolio.positions
                       THEN portfolio.positions[t].market_value ELSE 0
            sector  == ETF_UNIVERSE[t].sector
            sec_bp  == IF HasKey(portfolio.sector_breakdown, sector)
                       THEN portfolio.sector_breakdown[sector] ELSE 0
        IN  /\ (held_mv * 100 + size_result.cents) * 100
                   <= single_position_max * total
            /\ sec_bp * total + size_result.cents * 100 <= sector_max * total
            /\ sec_bp >= sector_max => size_result.cents = 0

\* the aggregate weight of the held equity-class tickers (all of them known)
EquityWeight ==
    LET eq == SelectSeq(portfolio.order, LAMBDA t : ETF_UNIVERSE[t].asset_class = "Equity")
    IN  Sum([ i \in DOMAIN eq |-> portfolio.positions[eq[i]].weight ])

\* the limits a snapshot breaches: weights above 30%, sectors above 50%, core
\* outside [25%, 40%], equity outside [85%, 100%], cash above 5% (SGOV exempt)
BreachedLimits ==
    { [check |-> "single_position", subject |-> t] :
          t \in { u \in DOMAIN portfolio.positions : portfolio.positions[u].weight > 3000 } }
    \cup { [check |-> "sector", subject |-> sec] :
          sec \in { x \in DOMAIN portfolio.sector_breakdown :
                       portfolio.sector_breakdown[x] > 5000 } }
    \cup (IF portfolio.core < 2500 THEN {[check |-> "core_min", subject |-> "Core"]} ELSE {})
    \cup (IF portfolio.core > 4000 THEN {[check |-> "core_max", subject |-> "Core"]} ELSE {})
    \cup (IF EquityWeight < 8500 THEN {[check |-> "equity_min", subject |-> "Equity"]} ELSE {})
    \cup (IF EquityWeight > 10000 THEN {[check |-> "equity_max", subject |-> "Equity"]} ELSE {})
    \cup (IF portfolio.cash_balance * 10000 > 500 * portfolio.total_value
          THEN {[check |-> "cash", subject |-> "Cash"]} ELSE {})

\* C19: a call that returns has run all five checks: the list holds one violation
\* for each breached limit and nothing else, and isValid is true exactly when
\* the list is empty.
C19_AllChecksRun ==
    val_result.status = "returned" =>
        LET v == val_result.violations
        IN  /\ { v[i] : i \in DOMAIN v } = BreachedLimits
            /\ Len(v) = Cardinality(BreachedLimits)
            /\ val_result.is_valid <=> (v = << >>)

\* witness: a snapshot breaching a position limit, a sector limit, the core band
\* and the cash limit at once, all four reported
C19_Witness ==
    /\ val_result.status = "returned"
    /\ \E i, j, k, l \in DOMAIN val_result.violations :
          /\ val_result.violations[i].check = "single_position"
          /\ val_result.violations[j].check = "sector"
          /\ val_result.violations[k].check \in {"core_min", "core_max"}
          /\ val_result.violations[l].check = "cash"

-----------------------------------------------------------------------------
(* Claims about the radar scan (SpecRadar) *)

\* the items of the tickers that fire a trigger, in scan order
Flagged ==
    LET scanned == [i \in DOMAIN market_data |->
                       IF market_data[i].df.is_none \/ market_data[i].df.n_bars = 0
                          \/ market_data[i].price_data.is_none
                       THEN NoItem
                       ELSE scan_etf(market_data[i].ticker, market_data[i].df,
                                     market_data[i].price_data)]
    IN  SelectSeq(scanned, IsFound)

\* C9: whatever the number of tickers and of flagged tickers, the returned focus
\* list has between 0 and 7 entries, and it is empty when no ticker fires a trigger.
C9_FocusListLengthBounded ==
    radar_result.status = "returned" =>
        /\ Len(radar_result.focus_list) \in 0..7
        /\ Flagged = << >> => radar_result.focus_list = << >>

\* witness: more than 7 tickers are flagged and 7 are returned
C9_Witness ==
    /\ radar_result.status = "returned"
    /\ Len(Flagged) > 7
    /\ Len(radar_result.focus_list) = 7

Reversed(md) == [i \in DOMAIN md |-> md[Len(md) + 1 - i]]

\* C12: the focus list (its tickers and their order) does not depend on the order
\* in which the tickers are presented: scanning the same inputs in the opposite
\* order returns the same list.
C12_OrderIndependent ==
    radar_result.status = "returned" =>
        generate_focus_list(Reversed(market_data)) = radar_result.focus_list

-----------------------------------------------------------------------------
(* Claims about one ticker's scan (SpecScan) *)

\* the four detectors applied to the scanned ticker, in evaluation order
Detected ==
    LET technical_indicators == calculate_technical_indicators(bars)
    IN  << detect_volume_spike(scan_result.price_data),
           detect_price_move(scan_result.price_data, bars),
           detect_momentum_crossover(technical_indicators),
           detect_rsi_extreme(technical_indicators) >>

\* C11: a scanned ticker yields a focus-list entry if and only if at least one of
\* the four triggers fires, and the entry's primary trigger (type and magnitude)
\* is the first that fired in the order volume-spike, price-move,
\* momentum-crossover, RSI-extreme, whatever the magnitudes of the others.
C11_PrimaryIsFirstFired ==
    (scan_result.status = "scanned" /\ ~scan_result.price_data.is_none) =>
        LET fl    == scan_result.focus_list
            first == IF Detected[1].fired THEN Detected[1]
                     ELSE IF Detected[2].fired THEN Detected[2]
                     ELSE IF Detected[3].fired THEN Detected[3]
                     ELSE Detected[4]
        IN  /\ (fl # << >>) <=> (\E i \in 1..4 : Detected[i].fired)
            /\ fl # << >> =>
                  /\ Len(fl) = 1
                  /\ first.fired
                  /\ fl[1].trigger_type = first.type
                  /\ fl[1].trigger_value = first.value

\* witness: volume spike and RSI extreme both fire, the RSI magnitude is the
\* greater, and the entry's primary trigger is the volume spike
C11_Witness ==
    /\ scan_result.status = "scanned"
    /\ ~scan_result.price_data.is_none
    /\ scan_result.focus_list # << >>
    /\ Detected[1].fired
    /\ Detected[4].fired
    /\ Detected[4].value > Detected[1].value
    /\ scan_result.focus_list[1].trigger_type = "volume_spike"

\* C20: the volume-spike trigger fires if and only if today's volume divided by
\* the 30-day average volume is at least 1.30, and it does not fire when that
\* average is 0.
C20_VolumeSpikeAtThreshold ==
    (scan_result.status = "scanned" /\ ~scan_result.price_data.is_none) =>
        LET fl    == scan_result.focus_list
            fired == fl # << >> /\ fl[1].trigger_type = "volume_spike"
        IN  IF bars.volume_tail_sum = 0
            THEN ~fired
            ELSE fired <=> (bars.volume_today * 30 * 100 >= 130 * bars.volume_tail_sum)

\* C21: whenever RSI has been computed for a ticker (its history is long enough
\* for the indicators to be calculated), the RSI-extreme trigger fires if and
\* only if RSI >= 70 or RSI <= 30, for every RSI value in [0, 100], the boundary
\* values 0, 30, 70 and 100 included; when no earlier trigger fires, the ticker
\* is then flagged with an rsi_extreme entry.
C21_RsiExtremeIffOutsideBand ==
    (/\ scan_result.status = "scanned"
     /\ ~scan_result.price_data.is_none
     /\ bars.n_bars >= 200) =>
        LET extreme == bars.rsi_14 >= rsi_overbought \/ bars.rsi_14 <= rsi_oversold
        IN  /\ Detected[4].fired <=> extreme
            /\ (\A i \in 1..3 : ~Detected[i].fired) =>
                   ((scan_result.focus_list # << >>) <=> extreme)

\* C23: detection degrades gracefully below 200 bars: for a series of n bars
\* each indicator is absent exactly when n is smaller than the history it needs
\* (SMA20 20, SMA50 50, RSI(14) 15, MACD(12,26,9) 35) and present otherwise, and
\* a trigger that depends on an absent indicator never fires.  (Series whose RSI
\* is 0 are left aside: they are the subject of C21.)
C23_IndicatorsByHistoryLength ==
    (/\ scan_result.status = "scanned"
     /\ bars.n_bars > 0
     /\ bars.rsi_14 # 0) =>
        LET technical_indicators == calculate_technical_indicators(bars)
            n                    == bars.n_bars
        IN  /\ (technical_indicators.sma_20 = None) <=> (n < 20)
            /\ (technical_indicators.sma_50 = None) <=> (n < 50)
            /\ (technical_indicators.rsi_14 = None) <=> (n < 15)
            /\ (technical_indicators.macd_signal \in {"None", "insufficient_data"})
                   <=> (n < 35)
            /\ technical_indicators.rsi_14 = None => ~Detected[4].fired
            /\ (/\ technical_indicators.macd_signal \in {"None", "insufficient_data"}
                /\ (technical_indicators.sma_20 = None
                       \/ technical_indicators.sma_50 = None))
                   => ~Detected[3].fired

\* C28: every focus-list entry's recorded trigger magnitude (trigger_value) is
\* non-negative: a price-move trigger records the absolute size of the move,
\* whether the price rose or fell and whichever of its two conditions fired.
C28_TriggerValueNonNegative ==
    scan_result.status = "scanned" =>
        \A k \in DOMAIN scan_result.focus_list :
            scan_result.focus_list[k].trigger_value >= 0

-----------------------------------------------------------------------------
(* Claims about the daily run (SpecRun) *)

\* the focus list as the radar scan returned it
ScannedList == generate_focus_list(market_data)

\* the news fetch or the sentiment analysis failed for the ticker: no articles,
\* no answer, or an answer without a summary
DiveFailed(ticker) ==
    ~providers.news[ticker].articles \/ providers.news[ticker].llm # "result"

\* C24: the enrichment settles every entry before synthesis: the dive returns the
\* same entries in the same order, each carrying a sentiment annotation; an entry
\* whose news fetch or sentiment analysis failed carries the neutral annotation
\* (score 0), every other entry carries exactly the scores the service gave for
\* it, whatever failed elsewhere in the batch; and generate_recommendations has
\* run only once the whole batch has returned.
C24_DiveSettlesEveryEntry ==
    /\ run.raised_in # "dive"
    /\ (ScannedList # << >> /\ run.pc \in {"recommend", "save", "done"}) => run.dived
    /\ run.dived =>
          /\ Len(focus_list) = Len(ScannedList)
          /\ \A i \in DOMAIN focus_list :
                LET entry == focus_list[i]
                    given == providers.news[entry.ticker]
                IN  /\ entry = [ScannedList[i] EXCEPT
                                   !.news_analysis = entry.news_analysis]
                    /\ entry.news_analysis.present
                    /\ DiveFailed(entry.ticker) =>
                           entry.news_analysis.sentiment_score = 0
                    /\ ~DiveFailed(entry.ticker) =>
                           /\ entry.news_analysis.sentiment_score = given.sentiment_score
                           /\ entry.news_analysis.relevance_score = given.relevance_score
    /\ rec_result.status # "pending" =>
          /\ run.pc \in {"save", "done", "raised"}
          /\ ScannedList # << >> => run.dived

\* C25: only a missing portfolio snapshot is fatal to a run: the run raises
\* before any other step when the snapshot cannot be loaded; with a snapshot, a
\* failed market-data fetch (empty focus list) or an unavailable volatility index
\* (20 / 20, regime normal) lets the run go on to completion, and the run never
\* raises; it ends with the DailyAnalysis saved when the storage accepts it.
C25_OnlyMissingPortfolioIsFatal ==
    /\ ~providers.portfolio_found =>
          /\ run.pc \in {"load", "raised"}
          /\ market_data = << >>
          /\ risk_mode = "unset"
          /\ rec_result.status = "pending"
    /\ providers.portfolio_found => run.pc # "raised"
    /\ (~providers.market_ok /\ run.pc \notin {"load", "fetch", "scan", "raised"}) =>
          focus_list = << >>
    /\ (~providers.vix_ok /\ run.pc \notin {"load", "fetch", "scan", "vix", "raised"}) =>
          /\ vix_level = 20
          /\ vix_5d_avg = 20
          /\ risk_mode = "normal"
    /\ (run.pc = "done" /\ providers.save_ok) => run.saved

\* C27: determine_preliminary_action returns HOLD for every combination of price
\* direction, MACD state and RSI zone, whatever the vote counts; so every entry
\* of a focus list produced by the detector is HOLD, every action the synthesizer
\* resolves for it is HOLD, INITIATE, ADD or TRIM, and no SELL or BUY
\* recommendation is emitted.
C27_DetectorActionsNeutral ==
    /\ \A i \in DOMAIN focus_list : focus_list[i].recommendation = "HOLD"
    /\ run.pc \in {"recommend", "save", "done"} =>
          \A i \in DOMAIN focus_list :
              determine_action(focus_list[i], IsHeld(focus_list[i].ticker), risk_mode)
                  \in {"HOLD", "INITIATE", "ADD", "TRIM"}
    /\ rec_result.status = "returned" =>
          \A k \in DOMAIN Recs : Recs[k].action \in {"HOLD", "INITIATE", "ADD", "TRIM"}

\* witness: a finished run whose focus list holds an entry with three bullish
\* votes and an entry with three bearish votes, and which emitted a TRIM
C27_Witness ==
    /\ run.pc = "done"
    /\ \E i \in DOMAIN focus_list :
          /\ focus_list[i].price_data.price_change_1d > 0
          /\ focus_list[i].technical_indicators.macd_signal = "bullish"
          /\ focus_list[i].technical_indicators.rsi_14 < 300000
          /\ focus_list[i].technical_indicators.rsi_14 # None
    /\ \E i \in DOMAIN focus_list :
          /\ focus_list[i].price_data.price_change_1d < 0
          /\ focus_list[i].technical_indicators.macd_signal = "bearish"
          /\ focus_list[i].technical_indicators.rsi_14 > 700000
    /\ \E k \in DOMAIN Recs : Recs[k].action = "TRIM"

-----------------------------------------------------------------------------
(* Claims about the relative strength index (SpecRsi) *)

\* C22: whenever calculate_rsi returns a value (the series has at least
\* period + 1 closes), that value is a number in [0, 100], for every price
\* series, including those with no losses, no gains, or no price change at all
\* over the window.
C22_RsiWithinRange ==
    (rsi_result.status = "returned" /\ Len(prices) >= rsi_period + 1) =>
        /\ rsi_result.rsi.kind = "value"
        /\ rsi_result.rsi.value >= 0
        /\ rsi_result.rsi.value <= 1000000

-----------------------------------------------------------------------------
(* Claims about the API server (SpecServer, SpecServerFair) *)

\* the threads whose run_analysis_task has not ended
RunningThreads == { i \in DOMAIN threads : threads[i].pc # "finished" }

\* C29: at most one analysis run executes at a time: under every interleaving of
\* start requests with the background task, a start request that arrives after
\* an earlier one was accepted and before that run has finished is rejected
\* with 409 and starts no second run.
C29_AtMostOneRun ==
    Cardinality(RunningThreads) <= 1

\* C30: every accepted run eventually ends with the system idle again: once a
\* run has been accepted, eventually every background task has finished, the
\* analysis_running flag is false (so that a new start request is accepted) and
\* the status read by GET /api/analysis/progress reports running = false.
C30_RunEndsIdle ==
    (threads # << >>) ~>
        (/\ RunningThreads = {}
         /\ ~analysis_running
         /\ ~get_progress.running)

=============================================================================
